---- MODULE Spec2Model ----
(***************************************************************************)
(* Model of apps/image_tools/normalize.cpp: the command line is validated  *)
(* (parse_args), the referenced images are loaded, their valid values are  *)
(* pooled, a (trimmed) range is estimated with two std::nth_element calls  *)
(* and the input image is rescaled in place and saved.                     *)
(*                                                                         *)
(* A float is a pair <<n, d>> standing for n/d in lowest terms with d >= 0;*)
(* <<0, 0>> is NaN and <<1, 0>>, <<-1, 0>> are the infinities.  A         *)
(* difference is rounded to the 24-bit significand of single precision, so *)
(* that a small value is absorbed by a large one as in the code.  A        *)
(* quotient is kept as the exact fraction that the float quotient rounds:  *)
(* 0 and 1 are floats and the rounding is monotone, so the fraction and    *)
(* the float compare alike with 0 and 1.  The product values.size() * eps  *)
(* is rounded to single precision as the code does.                        *)
(*                                                                         *)
(* A float that depends on the value read past the end of an empty buffer  *)
(* is kept as <<n, -d>>.  Such a read is any float; the floats between two *)
(* neighbouring values that the program compares it with (the pixel values *)
(* and the limits given as options) all compare alike with them, so one    *)
(* <<n, -d>> stands for every float of that interval and n/d is one of     *)
(* them.  The result of arithmetic on such a value is again kept as        *)
(* <<n, -d>>: n/d is the result for the read n/d, other reads of the       *)
(* interval give other floats.  Only results that are the same for every   *)
(* read are kept as plain floats: x - x = 0, x / x = 1, 0 / x = 0.         *)
(***************************************************************************)
EXTENDS Integers, Sequences, FiniteSets

\* ---------------------------------------------------------------- bounds
\* longest image (number of values) the loader returns
MaxLen == 2
\* longest --images list on the command line
MaxImages == 2
\* --epsilon is drawn from the multiples of 1/EpsDen in [-1/EpsDen, 1 + 1/EpsDen]
EpsDen == 2

\* ------------------------------------------------------ program constants
\* stand-ins for std::numeric_limits<float>::lowest() and ::max(): below and
\* above every other finite float of the model
FLT_LOWEST == -536870912
FLT_MAX == 536870912

\* ---------------------------------------------------------------- floats
Abs(n) == IF n < 0 THEN -n ELSE n

Sgn(n) == IF n < 0 THEN -1 ELSE IF n > 0 THEN 1 ELSE 0

RECURSIVE Gcd(_, _)
Gcd(a, b) == IF b = 0 THEN a ELSE Gcd(b, a % b)

Norm(n, d) ==
    IF d = 0 THEN <<Sgn(n), 0>>
    ELSE LET g == Gcd(Abs(n), Abs(d))
         IN  <<(Sgn(d) * n) \div g, Abs(d) \div g>>

F(n) == <<n, 1>>

NaN == <<0, 0>>

PosInf == <<1, 0>>

NegInf == <<-1, 0>>

IsFinite(x) == x[2] # 0

RECURSIVE BitLen(_)
BitLen(n) == IF n = 0 THEN 0 ELSE 1 + BitLen(n \div 2)

\* m / 2^s rounded to the nearest integer, ties to even
RoundShift(m, s) ==
    IF s <= 0 THEN m
    ELSE LET q == m \div (2 ^ s)
             r == m % (2 ^ s)
             h == 2 ^ (s - 1)
         IN  IF r > h \/ (r = h /\ q % 2 = 1) THEN q + 1 ELSE q

\* the float nearest to n / d, d a power of two: n is rounded to 24 bits
RoundToFloat(n, d) ==
    LET s == BitLen(Abs(n)) - 24
    IN  IF s <= 0 THEN Norm(n, d)
        ELSE Norm(Sgn(n) * RoundShift(Abs(n), s) * (2 ^ s), d)

\* a float that depends on an out-of-bounds read, its stand-in value, and
\* the result r of arithmetic on such a float: 0, the infinities and NaN
\* come out the same for every read
IsSym(x) == x[2] < 0

Val(x) == <<x[1], Abs(x[2])>>

Sym(r) == IF r[1] = 0 \/ r[2] = 0 THEN r ELSE <<r[1], -r[2]>>

\* operator< , operator<= , operator== , operator- and operator/ on floats
LessVal(x, y) ==
    /\ x # NaN /\ y # NaN
    /\ IF x[2] = 0 /\ y[2] = 0 THEN x[1] < y[1]
       ELSE x[1] * y[2] < y[1] * x[2]

Less(x, y) == LessVal(Val(x), Val(y))

\* faulty variant of Greater: the descending selection compares ascending
GreaterAsLess(x, y) == Less(x, y)

Greater(x, y) == Less(y, x)

LessEqVal(x, y) ==
    /\ x # NaN /\ y # NaN
    /\ IF x[2] = 0 /\ y[2] = 0 THEN x[1] <= y[1]
       ELSE x[1] * y[2] <= y[1] * x[2]

LessEq(x, y) == LessEqVal(Val(x), Val(y))

FloatEq(x, y) == x # NaN /\ x = y

SubVal(x, y) ==
    IF x = NaN \/ y = NaN \/ (x[2] = 0 /\ x = y) THEN NaN
    ELSE IF x[2] = 0 THEN x
    ELSE IF y[2] = 0 THEN <<-y[1], 0>>
    ELSE RoundToFloat(x[1] * y[2] - y[1] * x[2], x[2] * y[2])

Sub(x, y) ==
    LET r == SubVal(Val(x), Val(y))
    IN  IF IsSym(x) \/ IsSym(y) THEN Sym(r) ELSE r

DivVal(x, y) ==
    IF x = NaN \/ y = NaN \/ (x[2] = 0 /\ y[2] = 0) THEN NaN
    ELSE IF x[2] = 0 THEN <<IF y[1] < 0 THEN -x[1] ELSE x[1], 0>>
    ELSE IF y[2] = 0 THEN F(0)
    ELSE Norm(x[1] * y[2], x[2] * y[1])

Div(x, y) ==
    LET r == DivVal(Val(x), Val(y))
    IN  IF (IsSym(x) \/ IsSym(y)) /\ x # y THEN Sym(r) ELSE r

\* ---------------------------------------------------------------- inputs
Null == "null"

Names == {"a", "b"}

InImages == {"a"}

\* the pixel values a file may hold: -1 is the default ignore value, and a
\* file may hold an infinity
PixelValues == {NegInf, F(-1), F(1), F(2), F(3)}

\* --ignore: the default and a value in the middle of the pixel range
NoValues == {F(-1), F(2)}

SeqsUpTo(S, n) == UNION {[1..k -> S] : k \in 0..n}

Grids == SeqsUpTo(PixelValues, MaxLen)

EpsOpts == {Norm(k, EpsDen) : k \in -1..(EpsDen + 1)}

MinOpts == {F(FLT_LOWEST), F(2)}

MaxOpts == {F(FLT_MAX), F(1), F(3)}

\* the finite floats a run compares a bound with: the pixel values; the
\* limits given as options and the ignore value are among them
Points == {v \in PixelValues \cup NoValues : IsFinite(v)}

\* a float of every interval that the points leave: the middle of each two
\* neighbours, and one below and one above all points
Between ==
    {Norm(p[1] * q[2] + q[1] * p[2], 2 * p[2] * q[2]) :
        <<p, q>> \in {pq \in Points \X Points :
                        /\ Less(pq[1], pq[2])
                        /\ \A r \in Points :
                               ~(Less(pq[1], r) /\ Less(r, pq[2]))}}

Beyond ==
    {Norm(p[1] - p[2], p[2]) :
        p \in {q \in Points : \A r \in Points : ~Less(r, q)}}
        \cup
    {Norm(p[1] + p[2], p[2]) :
        p \in {q \in Points : \A r \in Points : ~Less(q, r)}}

\* the read of some float of the interval that holds g
Read(g) == <<g[1], -g[2]>>

\* what an out-of-bounds read of the value buffer may yield: any float.
\* Every float is a point, an infinity, NaN, or lies in one of the intervals
\* between and beyond the points
Garbage ==
    Points \cup {NegInf, PosInf, NaN} \cup {Read(g) : g \in Between \cup Beyond}

Range(s) == {s[i] : i \in DOMAIN s}

VARIABLES
    pc,              \* position in parse_args / main
    argv,            \* the options as given on the command line
    args,            \* Arguments conf returned by parse_args
    images_to_load,  \* name -> image (empty until loaded)
    loaded,          \* the keys the loading loop has visited
    num_values,      \* sum of the loaded images' value amounts
    values,          \* std::vector<float> values
    c,               \* number of values trimmed at each end
    real_min, real_max,
    min, max, delta,
    num_outliers,
    input,           \* the input image as the loader returned it
    load_failed,     \* some load_pfm_file call threw
    saved            \* whether out_image was written, and the image written

vars == <<pc, argv, args, images_to_load, loaded, num_values, values,
          c, real_min,
          real_max, min, max, delta, num_outliers, input, load_failed,
          saved>>

\* a local that has not been assigned yet
Unset == NaN

NotSaved == [written |-> FALSE, image |-> <<>>]

\* -------------------------------------------------------------- parse_args
\* faulty variant of ValidConf: the upper limit of epsilon is not checked
ValidConfNoUpper(conf) ==
    /\ ~Less(conf.eps, F(0))
    /\ ~Less(conf.max, conf.min)

\* the two checks at the end of parse_args
ValidConf(conf) ==
    /\ ~(Less(conf.eps, F(0)) \/ Less(F(1), conf.eps))
    /\ ~Less(conf.max, conf.min)

\* faulty variant of DefaultImages: an empty images list stays empty
DefaultImagesNone(conf) == conf

\* "if (conf.images.empty()) conf.images.push_back(conf.in_image)"
DefaultImages(conf) ==
    IF conf.images = <<>> THEN [conf EXCEPT !.images = <<conf.in_image>>]
    ELSE conf

Init ==
    /\ pc = "parse"
    /\ argv \in [clamp : BOOLEAN, in_image : InImages, eps : EpsOpts,
                 no_value : NoValues, min : MinOpts, max : MaxOpts,
                 images : SeqsUpTo(Names, MaxImages)]
    /\ args = Null
    /\ images_to_load = <<>>
    /\ loaded = {}
    /\ num_values = 0
    /\ values = <<>>
    /\ c = 0
    /\ real_min = Unset /\ real_max = Unset
    /\ min = Unset /\ max = Unset /\ delta = Unset
    /\ num_outliers = 0
    /\ input = <<>>
    /\ load_failed = FALSE
    /\ saved = NotSaved

ParseArgs ==
    /\ pc = "parse"
    /\ IF ValidConf(argv)
       THEN /\ args' = DefaultImages(argv)
            /\ pc' = "main"
       ELSE /\ args' = args
            /\ pc' = "config_error"
    /\ UNCHANGED <<argv, images_to_load, loaded, num_values, values, c, real_min,
                   real_max, min, max, delta, num_outliers, input,
                   load_failed, saved>>

\* ------------------------------------------------------------------- main
\* the keys of images_to_load: every listed name and the input image
KeysToLoad(conf) == Range(conf.images) \cup {conf.in_image}

CollectNames ==
    /\ pc = "main"
    /\ images_to_load' = [n \in KeysToLoad(args) |-> <<>>]
    /\ pc' = "load"
    /\ UNCHANGED <<argv, args, loaded, num_values, values, c, real_min, real_max,
                   min, max, delta, num_outliers, input, load_failed, saved>>

\* faulty variant of AfterLoadFailure: the failure is reported and the
\* loading loop goes on
AfterLoadFailureContinue == "load"

\* where main continues when load_pfm_file throws: std::exit(EXIT_FAILURE)
AfterLoadFailure == "load_error"

\* one iteration of the loading loop; the iteration order of the
\* unordered_map is unspecified
LoadImage ==
    /\ pc = "load"
    /\ \E name \in DOMAIN images_to_load :
        /\ name \notin loaded
        /\ \/ \E image \in Grids :
                /\ images_to_load' = [images_to_load EXCEPT ![name] = image]
                /\ loaded' = loaded \cup {name}
                /\ num_values' = num_values + Len(image)
                /\ input' = IF name = args.in_image THEN image ELSE input
                /\ UNCHANGED <<pc, load_failed>>
           \/ /\ load_failed' = TRUE
              /\ pc' = AfterLoadFailure
              /\ UNCHANGED <<images_to_load, loaded, num_values, input>>
    /\ UNCHANGED <<argv, args, values, c, real_min, real_max, min, max,
                   delta, num_outliers, saved>>

\* the values of one image that differ from the ignore value, in order
ValidValues(image, no_value) ==
    SelectSeq(image, LAMBDA v : ~FloatEq(v, no_value))

\* the pooling loop over args.images
RECURSIVE PoolValues(_, _, _)
PoolValues(images, map, no_value) ==
    IF images = <<>> THEN <<>>
    ELSE ValidValues(map[Head(images)], no_value)
             \o PoolValues(Tail(images), map, no_value)

Pool ==
    /\ pc = "load"
    /\ loaded = DOMAIN images_to_load
    /\ values' = PoolValues(args.images, images_to_load, args.no_value)
    /\ pc' = "extrema"
    /\ UNCHANGED <<argv, args, images_to_load, loaded, num_values, c, real_min,
                   real_max, min, max, delta, num_outliers, input,
                   load_failed, saved>>

\* ------------------------------------------------------- range estimation
\* single-precision arithmetic on <<m, e>>, standing for m * 2^e with a
\* significand m of at most 24 bits
\* the conversion size_t -> float
FloatOfNat(n) ==
    LET len == BitLen(n)
    IN  IF len <= 24 THEN <<n, 0>> ELSE <<RoundShift(n, len - 24), len - 24>>

RECURSIVE ScaleOf(_, _, _)
ScaleOf(k, d, p) == IF k * (2 ^ p) >= d * (2 ^ 23) THEN p ELSE ScaleOf(k, d, p + 1)

\* the float nearest to k / d, for 0 <= k / d < 2
FloatOfRatio(k, d) ==
    IF k = 0 THEN <<0, 0>>
    ELSE LET p == ScaleOf(k, d, 0)
             n == k * (2 ^ p)
             q == n \div d
             r == n % d
         IN  <<IF 2 * r > d \/ (2 * r = d /\ q % 2 = 1) THEN q + 1 ELSE q, -p>>

\* the float product, rounded to nearest even
FloatMul(a, b) ==
    LET a1 == a[1] \div 4096
        a0 == a[1] % 4096
        b1 == b[1] \div 4096
        b0 == b[1] % 4096
        t1 == a1 * b0 + a0 * b1
        low == a0 * b0 + (t1 % 4096) * 4096
        lo == low % 16777216
        hi == a1 * b1 + t1 \div 4096 + low \div 16777216
        len == BitLen(hi)
        q == hi * (2 ^ (24 - len)) + lo \div (2 ^ len)
        r == lo % (2 ^ len)
        h == IF len = 0 THEN 0 ELSE 2 ^ (len - 1)
    IN  IF len = 0 THEN <<lo, a[2] + b[2]>>
        ELSE <<IF r > h \/ (r = h /\ q % 2 = 1) THEN q + 1 ELSE q,
               len + a[2] + b[2]>>

\* std::size_t c = (values.size() * args.eps) / 2: the size is converted
\* to float, the product is a float, and the half is truncated
TrimCount(n, eps) ==
    LET prod == FloatMul(FloatOfNat(n), FloatOfRatio(eps[1], eps[2]))
        e == prod[2] - 1
    IN  IF e >= 0 THEN prod[1] * (2 ^ e)
        ELSE IF -e > 30 THEN 0
        ELSE prod[1] \div (2 ^ (-e))

\* std::minmax_element: the smallest and the largest value of a buffer
MinElement(s) == CHOOSE x \in Range(s) : \A y \in Range(s) : ~Less(y, x)

MaxElement(s) == CHOOSE x \in Range(s) : \A y \in Range(s) : ~Less(x, y)

Bijections(n) ==
    {f \in [1..n -> 1..n] : \A i, j \in 1..n : i # j => f[i] # f[j]}

Rearrangements(s) == {[i \in 1..Len(s) |-> s[f[i]]] : f \in Bijections(Len(s))}

\* the comparators handed to nth_element: std::less and std::greater
Compare(comp, x, y) == IF comp = "greater" THEN Greater(x, y) ELSE Less(x, y)

\* std::nth_element(first, first + (n-1), last, comp): every rearrangement
\* in which no element before position n comes after s[n] under comp and
\* no element after position n comes before it
NthElement(s, n, comp) ==
    {p \in Rearrangements(s) :
        /\ \A i \in 1..(n - 1) : ~Compare(comp, p[n], p[i])
        /\ \A j \in (n + 1)..Len(s) : ~Compare(comp, p[j], p[n])}

\* the dereference of values.end() (empty buffer) is undefined: the run
\* either dies or goes on with whatever the read produced.  With an empty
\* buffer c is 0, so both iterators of minmax_element and both nth point to
\* the same address: the reads that follow the first yield the same value
Extrema ==
    /\ pc = "extrema"
    /\ c' = TrimCount(Len(values), args.eps)
    /\ IF values # <<>>
       THEN /\ real_min' = MinElement(values)
            /\ real_max' = MaxElement(values)
            /\ pc' = "select_min"
       ELSE \/ /\ pc' = "crashed"
               /\ UNCHANGED <<real_min, real_max>>
            \/ /\ real_min' \in Garbage
               /\ real_max' = real_min'
               /\ pc' = "select_min"
    /\ UNCHANGED <<argv, args, images_to_load, loaded, num_values, values, min, max,
                   delta, num_outliers, input, load_failed, saved>>

SelectMin ==
    /\ pc = "select_min"
    /\ IF FloatEq(args.min, F(FLT_LOWEST))
       THEN IF c < Len(values)
            THEN /\ values' \in NthElement(values, c + 1, "less")
                 /\ min' = values'[c + 1]
                 /\ pc' = "select_max"
            ELSE /\ min' = real_min
                 /\ pc' = "select_max"
                 /\ UNCHANGED values
       ELSE /\ min' = args.min
            /\ pc' = "select_max"
            /\ UNCHANGED values
    /\ UNCHANGED <<argv, args, images_to_load, loaded, num_values, c,
                   real_min, real_max, max, delta, num_outliers, input, load_failed,
                   saved>>

SelectMax ==
    /\ pc = "select_max"
    /\ IF FloatEq(args.max, F(FLT_MAX))
       THEN IF c < Len(values)
            THEN /\ values' \in NthElement(values, c + 1, "greater")
                 /\ max' = values'[c + 1]
                 /\ pc' = "apply"
            ELSE /\ max' = real_max
                 /\ pc' = "apply"
                 /\ UNCHANGED values
       ELSE /\ max' = args.max
            /\ pc' = "apply"
            /\ UNCHANGED values
    /\ delta' = Sub(max', min)
    /\ UNCHANGED <<argv, args, images_to_load, loaded, num_values, c,
                   real_min, real_max, min, num_outliers, input, load_failed, saved>>

\* ------------------------------------------------------ range application
\* faulty variant of NormalizeValue: the ignore value is not skipped
NormalizeValueNoSkip(value, mn, mx, dl, clamp, no_value) ==
    IF LessEq(mn, value)
    THEN IF LessEq(value, mx)
         THEN [out |-> Div(Sub(value, mn), dl), outlier |-> FALSE]
         ELSE [out |-> IF clamp THEN F(1) ELSE no_value, outlier |-> TRUE]
    ELSE [out |-> IF clamp THEN F(0) ELSE no_value, outlier |-> TRUE]

\* faulty variant of NormalizeValue: the offset value is divided by max
\* instead of delta
NormalizeValueNoDelta(value, mn, mx, dl, clamp, no_value) ==
    IF FloatEq(value, no_value) THEN [out |-> value, outlier |-> FALSE]
    ELSE IF LessEq(mn, value)
         THEN IF LessEq(value, mx)
              THEN [out |-> Div(Sub(value, mn), mx), outlier |-> FALSE]
              ELSE [out |-> IF clamp THEN F(1) ELSE no_value,
                    outlier |-> TRUE]
         ELSE [out |-> IF clamp THEN F(0) ELSE no_value, outlier |-> TRUE]

\* faulty variant of NormalizeValue: the test against max is missing
NormalizeValueNoUpperTest(value, mn, mx, dl, clamp, no_value) ==
    IF FloatEq(value, no_value) THEN [out |-> value, outlier |-> FALSE]
    ELSE IF LessEq(mn, value)
         THEN [out |-> Div(Sub(value, mn), dl), outlier |-> FALSE]
         ELSE [out |-> IF clamp THEN F(0) ELSE no_value, outlier |-> TRUE]

\* the body of the rewriting loop for one value: the new value and whether
\* it was counted as an outlier
NormalizeValue(value, mn, mx, dl, clamp, no_value) ==
    IF FloatEq(value, no_value) THEN [out |-> value, outlier |-> FALSE]
    ELSE IF LessEq(mn, value)
         THEN IF LessEq(value, mx)
              THEN [out |-> Div(Sub(value, mn), dl), outlier |-> FALSE]
              ELSE [out |-> IF clamp THEN F(1) ELSE no_value,
                    outlier |-> TRUE]
         ELSE [out |-> IF clamp THEN F(0) ELSE no_value, outlier |-> TRUE]

Apply ==
    /\ pc = "apply"
    /\ LET image == images_to_load[args.in_image]
           res == [i \in DOMAIN image |->
                      NormalizeValue(image[i], min, max, delta, args.clamp,
                                     args.no_value)]
       IN  /\ images_to_load' =
                 [images_to_load EXCEPT ![args.in_image] =
                     [i \in DOMAIN image |-> res[i].out]]
           /\ num_outliers' = Cardinality({i \in DOMAIN image : res[i].outlier})
    /\ pc' = "save"
    /\ UNCHANGED <<argv, args, loaded, num_values, values, c, real_min, real_max,
                   min, max, delta, input, load_failed, saved>>

\* save_pfm_file writes the image or throws
Save ==
    /\ pc = "save"
    /\ \/ /\ saved' = [written |-> TRUE, image |-> images_to_load[args.in_image]]
          /\ pc' = "done"
       \/ /\ pc' = "save_error"
          /\ UNCHANGED saved
    /\ UNCHANGED <<argv, args, images_to_load, loaded, num_values, values, c,
                   real_min, real_max, min, max, delta, num_outliers, input,
                   load_failed>>

Next ==
    \/ ParseArgs
    \/ CollectNames
    \/ LoadImage
    \/ Pool
    \/ Extrema
    \/ SelectMin
    \/ SelectMax
    \/ Apply
    \/ Save

Spec == Init /\ [][Next]_vars

\* ============================================================ properties
PostPool ==
    pc \in {"extrema", "select_min", "select_max", "apply", "save", "done",
            "save_error", "crashed"}

PostExtrema ==
    pc \in {"select_min", "select_max", "apply", "save", "done",
            "save_error", "crashed"}

PostSelect == pc \in {"apply", "save", "done", "save_error"}

PostApply == pc \in {"save", "done", "save_error"}

\* the input image after the rewriting pass
Output == images_to_load[args.in_image]

IsValid(v) == ~FloatEq(v, args.no_value)

InRange(v) == LessEq(min, v) /\ LessEq(v, max)

Count(s, x) == Cardinality({i \in DOMAIN s : s[i] = x})

NoOverrides == FloatEq(args.min, F(FLT_LOWEST)) /\ FloatEq(args.max, F(FLT_MAX))

\* C1: every element of the input image that equals the ignore value still
\* equals it after the rewriting pass, and no such element is counted as an
\* outlier.
C1_SentinelsPreserved ==
    PostApply =>
        /\ DOMAIN Output = DOMAIN input
        /\ \A i \in DOMAIN input :
               ~IsValid(input[i]) => Output[i] = args.no_value
        /\ num_outliers <= Cardinality({i \in DOMAIN input : IsValid(input[i])})

C1_Witness ==
    /\ PostApply
    /\ args.clamp
    /\ num_outliers = 1
    /\ \E i, j \in DOMAIN input :
           /\ ~IsValid(input[i]) /\ Output[i] = args.no_value
           /\ IsValid(input[j]) /\ ~InRange(input[j])

\* C2 (as claimed): on a run whose value buffer was not empty, the outlier
\* count is the number of valid elements of the input image outside
\* [min, max]; with clamp such an element becomes 1.0 when it is above max
\* and 0.0 otherwise (it is then below min), in the order of the
\* specification's Range Applier; without clamp it becomes the ignore value.
C2_OutliersAsClaimed ==
    (PostApply /\ values # <<>>) =>
        /\ num_outliers =
               Cardinality({i \in DOMAIN input :
                               IsValid(input[i]) /\ ~InRange(input[i])})
        /\ \A i \in DOMAIN input :
               IsValid(input[i]) /\ ~InRange(input[i]) =>
                   Output[i] = IF ~args.clamp THEN args.no_value
                               ELSE IF Less(max, input[i]) THEN F(1)
                               ELSE F(0)

\* C3 (as claimed): on a run whose value buffer was not empty, a valid
\* element v of the input image with min <= v <= max, where max - min > 0,
\* is rewritten to (v - min) / (max - min), which lies in [0, 1].
C3_InRangeRescaledAsClaimed ==
    (PostApply /\ values # <<>>) =>
        \A i \in DOMAIN input :
            (IsValid(input[i]) /\ InRange(input[i]) /\ Less(F(0), Sub(max, min)))
                => /\ Output[i] = Div(Sub(input[i], min), Sub(max, min))
                   /\ LessEq(F(0), Output[i])
                   /\ LessEq(Output[i], F(1))

\* C3 (amended): on a run whose value buffer was not empty, a valid element
\* v of the input image with min <= v <= max, where max - min is positive
\* and finite, is rewritten to (v - min) / (max - min), which lies in
\* [0, 1].
C3_InRangeRescaled ==
    (PostApply /\ values # <<>>) =>
        \A i \in DOMAIN input :
            (/\ IsValid(input[i]) /\ InRange(input[i])
             /\ Less(F(0), Sub(max, min)) /\ IsFinite(Sub(max, min)))
                => /\ Output[i] = Div(Sub(input[i], min), Sub(max, min))
                   /\ LessEq(F(0), Output[i])
                   /\ LessEq(Output[i], F(1))

C3_Witness ==
    /\ PostApply /\ values # <<>>
    /\ Less(F(0), Sub(max, min)) /\ IsFinite(Sub(max, min))
    /\ \E i \in DOMAIN input :
           /\ IsValid(input[i]) /\ InRange(input[i])
           /\ Less(F(0), Output[i]) /\ Less(Output[i], F(1))

\* x is the k-th smallest (largest) value of the buffer s
IsKthSmallest(s, k, x) ==
    /\ x \in Range(s)
    /\ Cardinality({i \in DOMAIN s : Less(s[i], x)}) < k
    /\ k <= Cardinality({i \in DOMAIN s : LessEq(s[i], x)})

IsKthLargest(s, k, x) ==
    /\ x \in Range(s)
    /\ Cardinality({i \in DOMAIN s : Less(x, s[i])}) < k
    /\ k <= Cardinality({i \in DOMAIN s : LessEq(x, s[i])})

\* k is floor(n * eps / 2)
IsFloorOfHalf(n, eps, k) ==
    /\ 2 * eps[2] * k <= n * eps[1]
    /\ n * eps[1] < 2 * eps[2] * (k + 1)

\* n, eps and n * eps are floats: the size converts to float and the product
\* is formed without rounding
ExactProduct(n, eps) ==
    /\ 2 ^ (BitLen(eps[2]) - 1) = eps[2]
    /\ RoundToFloat(eps[1], eps[2]) = eps
    /\ RoundToFloat(n, 1) = F(n)
    /\ RoundToFloat(n * eps[1], eps[2]) = Norm(n * eps[1], eps[2])

\* sizes of a value buffer around 2^24 and 2^25, where the conversion of
\* values.size() to float starts to round; a buffer of such a size is not
\* built, the sizes enter as the first argument of TrimCount
LargeSizes == (16777214..16777221) \cup (33554430..33554436)

\* C4 (as claimed): with N_valid > 0 values in the buffer and no overrides,
\* c is floor(N_valid * epsilon / 2), for the buffer of the run and for
\* what line 146 yields with the run's epsilon at every larger size (taken
\* in the state that follows line 146); min is
\* the (c+1)-th smallest and max the (c+1)-th largest pooled value however
\* the selections reordered the buffer; with epsilon = 0 they are the true
\* minimum and maximum; 100 values and epsilon 0.1 give c = 5.
C4_TrimmedBoundsAsClaimed ==
    /\ (PostSelect /\ values # <<>> /\ NoOverrides) =>
           /\ IsFloorOfHalf(Len(values), args.eps, c)
           /\ IsKthSmallest(values, c + 1, min)
           /\ IsKthLargest(values, c + 1, max)
           /\ IsKthSmallest(values, 1, real_min)
           /\ IsKthLargest(values, 1, real_max)
           /\ args.eps = F(0) => (min = real_min /\ max = real_max)
    /\ (pc = "select_min" /\ values # <<>> /\ NoOverrides) =>
           /\ \A n \in LargeSizes :
                  IsFloorOfHalf(n, args.eps, TrimCount(n, args.eps))
           /\ TrimCount(100, Norm(1, 10)) = 5

\* C4 (amended): with N_valid > 0 values in the buffer and no overrides, c
\* is the integer part of half the single-precision product of N_valid and
\* epsilon, which is floor(N_valid * epsilon / 2) whenever N_valid and the
\* product are floats, for the buffer of the run and at every larger size
\* (16777219 values and epsilon 1 give 8388610); min is the (c+1)-th
\* smallest and max the (c+1)-th largest pooled value however the
\* selections reordered the buffer; with epsilon = 0 they are the true
\* minimum and maximum; 100 values and epsilon 0.1 give c = 5.
C4_TrimmedBounds ==
    /\ (PostSelect /\ values # <<>> /\ NoOverrides) =>
           /\ c = TrimCount(Len(values), args.eps)
           /\ ExactProduct(Len(values), args.eps)
                  => IsFloorOfHalf(Len(values), args.eps, c)
           /\ IsKthSmallest(values, c + 1, min)
           /\ IsKthLargest(values, c + 1, max)
           /\ IsKthSmallest(values, 1, real_min)
           /\ IsKthLargest(values, 1, real_max)
           /\ args.eps = F(0) => (min = real_min /\ max = real_max)
    /\ (pc = "select_min" /\ values # <<>> /\ NoOverrides) =>
           /\ \A n \in LargeSizes :
                  ExactProduct(n, args.eps) =>
                      IsFloorOfHalf(n, args.eps, TrimCount(n, args.eps))
           /\ TrimCount(16777219, F(1)) = 8388610
           /\ TrimCount(100, Norm(1, 10)) = 5

C4_Witness ==
    /\ PostApply
    /\ NoOverrides
    /\ Len(values) = 4
    /\ c = 1
    /\ Less(real_min, min) /\ Less(min, max) /\ Less(max, real_max)
    /\ num_outliers = 2

RECURSIVE SumOver(_, _)
SumOver(S, f) ==
    IF S = {} THEN 0
    ELSE LET n == CHOOSE m \in S : TRUE
         IN  f[n] + SumOver(S \ {n}, f)

\* C5 (as claimed): every distinct name of the images list contributes its
\* valid values to the value buffer exactly once.
C5_DuplicatesCollapse ==
    pc = "extrema" =>
        \A x \in PixelValues :
            LET InImage == [n \in Range(args.images) |->
                    Count(ValidValues(images_to_load[n], args.no_value), x)]
            IN  Count(values, x) = SumOver(Range(args.images), InImage)

\* C6 (as claimed): the value buffer holds every valid value of the input
\* image, whatever the images list names.
C6_TargetAlwaysPooled ==
    pc = "extrema" =>
        \A x \in PixelValues :
            IsValid(x) => Count(values, x) >= Count(input, x)

\* C6 (amended): the input image is always loaded, and the value buffer
\* holds every valid value of the input image when the images list names
\* the input image or is not given.
C6_TargetPooledWhenListed ==
    pc = "extrema" =>
        /\ args.in_image \in loaded
        /\ (argv.images = <<>> \/ argv.in_image \in Range(argv.images)) =>
               \A x \in PixelValues :
                   IsValid(x) => Count(values, x) >= Count(input, x)

C6_Witness ==
    /\ pc = "extrema"
    /\ argv.images = <<"b", "a">>
    /\ Len(values) = 3
    /\ \E i \in DOMAIN input : IsValid(input[i])

\* the configuration errors of the specification
BadConfig(conf) ==
    \/ Less(conf.eps, F(0))
    \/ Less(F(1), conf.eps)
    \/ /\ conf.min # F(FLT_LOWEST)
       /\ conf.max # F(FLT_MAX)
       /\ Less(conf.max, conf.min)

\* C7: a run with epsilon outside [0, 1], or with both overrides given and
\* the maximum below the minimum, ends in the configuration error, with no
\* image loaded, none modified and nothing saved.
C7_ConfigErrorBeforeIO ==
    (BadConfig(argv) /\ pc # "parse") =>
        /\ pc = "config_error"
        /\ loaded = {} /\ images_to_load = <<>> /\ num_values = 0
        /\ values = <<>> /\ input = <<>>
        /\ ~load_failed
        /\ ~saved.written

C7_Witness ==
    /\ pc = "config_error"
    /\ Less(F(1), argv.eps)
    /\ argv.min = F(2) /\ argv.max = F(1)

\* C8: once a load has failed the run has ended: nothing was pooled,
\* estimated or rewritten and nothing is saved.
C8_LoadFailureAborts ==
    load_failed =>
        /\ pc = "load_error"
        /\ values = <<>>
        /\ min = Unset /\ max = Unset /\ real_min = Unset /\ real_max = Unset
        /\ num_outliers = 0
        /\ Output = input
        /\ ~saved.written

C8_Witness ==
    /\ load_failed
    /\ pc = "load_error"
    /\ loaded = {"b"}
    /\ args.in_image = "a"

\* C9 (as claimed): when the estimation without overrides yields min > max,
\* the valid elements of the input image are rewritten to (v - min) / delta.
C9_InvertedRescale ==
    (PostApply /\ values # <<>> /\ NoOverrides /\ Less(max, min)) =>
        \A i \in DOMAIN input :
            IsValid(input[i]) => Output[i] = Div(Sub(input[i], min), delta)

\* C9 (amended): when the estimation without overrides yields min > max, no
\* element is rewritten to (v - min) / delta: every valid element of the
\* input image is counted as an outlier and becomes 0.0 (v < min) or 1.0
\* (v >= min) with clamp and the ignore value without.
C9_InvertedAllOutliers ==
    (PostApply /\ values # <<>> /\ NoOverrides /\ Less(max, min)) =>
        /\ Less(delta, F(0))
        /\ num_outliers = Cardinality({i \in DOMAIN input : IsValid(input[i])})
        /\ \A i \in DOMAIN input :
               IsValid(input[i]) =>
                   Output[i] = IF ~args.clamp THEN args.no_value
                               ELSE IF Less(input[i], min) THEN F(0)
                               ELSE F(1)

C9_Witness ==
    /\ PostApply
    /\ values # <<>> /\ NoOverrides /\ Less(max, min)
    /\ args.clamp
    /\ \E i, j \in DOMAIN input :
           /\ IsValid(input[i]) /\ Output[i] = F(0)
           /\ IsValid(input[j]) /\ Output[j] = F(1)

\* C10 (as claimed): whenever the estimator has read the extrema, the value
\* buffer is non-empty and c is a valid index of it.
C10_BufferNonEmpty ==
    PostExtrema => (values # <<>> /\ c < Len(values))

====
